---- MODULE Spec2Model ----
(***************************************************************************)
(* Model of scripts/pipeline.py: the print-preparation pipeline            *)
(*   pick_input_file -> Image.open -> crop_to_1_to_2 -> save cropped ->    *)
(*   run_realesrgan (optional) -> resize -> TIFF -> preview                *)
(* A raster is a record: its size (w, h), the origin (x, y) of its window  *)
(* in the image it was cropped from, and where its pixels come from (src:  *)
(* "input" for the decoded input file, "upscaled" for work/upscaled.png,   *)
(* with the run that wrote them).                                          *)
(***************************************************************************)
EXTENDS Integers, Sequences, FiniteSets, TLC

\* ------------------------------------------------------------------ bounds
\* sides of the rasters handed to crop_to_1_to_2 on its own
MaxDim == 8
\* sides of the images decoded in a run of main()
MaxImg == 2
\* runs of main() that share the work/ directory
MaxRuns == 2

\* --------------------------------------------------------------- constants
TARGET_W == 8504
TARGET_H == 17008
PREVIEW_W == 2126
PREVIEW_H == 4252
SCALE == 4

VARIABLES
  cropIn,        \* crop harness: the raster given to crop_to_1_to_2
  cropOut,       \* crop harness: the results of its successive applications
  run,           \* number of the current run of main()
  pc,            \* position of the current run in main()
  inputDir,      \* input/: "absent", "dir" or "file" (a non-directory)
  inputFiles,    \* the entries of input/
  environ,       \* os.environ: the value of REALESRGAN_BIN, or Unset
  upscaledFile,  \* work/upscaled.png, kept from run to run
  input_path,    \* main's input_path
  im,            \* main's im
  im_cropped,    \* main's im_cropped
  croppedFile,   \* work/input_cropped.png as written by this run
  toolExit,      \* how the subprocess of this run ended
  used_ai,       \* main's used_ai
  src_for_final, \* main's src_for_final
  final,         \* main's final
  tiffFile,      \* output/<stem>_600x1200mm_360dpi.tiff as written by this run
  previewFile,   \* output/preview.jpg as written by this run
  err            \* the exception that ended this run, and where it was raised

cropVars == <<cropIn, cropOut>>
fsVars == <<inputDir, inputFiles, environ, upscaledFile>>
runVars == <<run, pc, input_path, im, im_cropped, croppedFile, toolExit,
             used_ai, src_for_final, final, tiffFile, previewFile, err>>
vars == <<cropIn, cropOut, run, pc, inputDir, inputFiles, environ,
          upscaledFile, input_path, im, im_cropped, croppedFile, toolExit,
          used_ai, src_for_final, final, tiffFile, previewFile, err>>

\* ------------------------------------------------------------------ rasters
Raster(w, h, x, y, src, r) ==
  [w |-> w, h |-> h, x |-> x, y |-> y, src |-> src, run |-> r]

NoRaster == Raster(0, 0, 0, 0, "none", 0)

\* Image.crop(box): the window box = (left, upper, right, lower) of im
Crop(img, left, upper, right, lower) ==
  Raster(right - left, lower - upper, img.x + left, img.y + upper,
         img.src, img.run)

\* a slip: a resize that keeps the aspect ratio of its input
ResizeKeepAspect(img, w, h) ==
  Raster(w, (img.h * w) \div (IF img.w = 0 THEN 1 ELSE img.w), 0, 0,
         img.src, img.run)

\* Image.resize(size): a raster of exactly the size asked for
Resize(img, w, h) == Raster(w, h, 0, 0, img.src, img.run)

\* ---------------------------------------------------------- crop_to_1_to_2
\* slips of the arithmetic of crop_to_1_to_2: a half rounded up, a target
\* height one short, an offset rounded up
target_w_ceil(h) == (h + 1) \div 2

target_w(h) == h \div 2

target_h_short(w) == w * 2 - 1

target_h(w) == w * 2

left_ceil(w, tw) == (w - tw + 1) \div 2

left(w, tw) == (w - tw) \div 2

top(h, th) == (h - th) \div 2

\* the branch crop_to_1_to_2 takes
CropBranch(img) ==
  IF img.w = target_w(img.h) THEN "same"
  ELSE IF img.w > target_w(img.h) THEN "width"
  ELSE IF target_h(img.w) > img.h THEN "fallback"
  ELSE "height"

crop_to_1_to_2(img) ==
  LET tw == target_w(img.h)
      th == target_h(img.w)
      b == CropBranch(img)
  IN  CASE b = "same" -> img
        [] b = "width" ->
             Crop(img, left(img.w, tw), 0, left(img.w, tw) + tw, img.h)
        [] b = "fallback" -> img
        [] b = "height" ->
             Crop(img, 0, top(img.h, th), img.w, top(img.h, th) + th)

\* ------------------------------------------------------------ crop harness
CropInputs ==
  {Raster(w, h, 0, 0, "input", 0) : w \in 1..MaxDim, h \in 1..MaxDim}

CropApply ==
  /\ Len(cropOut) < 2
  /\ LET arg == IF cropOut = <<>> THEN cropIn ELSE cropOut[Len(cropOut)].img
     IN  cropOut' = Append(cropOut,
                      [img |-> crop_to_1_to_2(arg), branch |-> CropBranch(arg)])
  /\ UNCHANGED <<cropIn, fsVars, runVars>>

\* ------------------------------------------------------------------ strings
\* a string is the sequence of its characters
UpperChars == <<"A", "B", "C", "D", "E", "F", "G", "H", "I", "J", "K", "L", "M",
                "N", "O", "P", "Q", "R", "S", "T", "U", "V", "W", "X", "Y", "Z">>

LowerChars == <<"a", "b", "c", "d", "e", "f", "g", "h", "i", "j", "k", "l", "m",
                "n", "o", "p", "q", "r", "s", "t", "u", "v", "w", "x", "y", "z">>

LowerChar(c) ==
  IF \E i \in DOMAIN UpperChars : UpperChars[i] = c
  THEN LowerChars[CHOOSE i \in DOMAIN UpperChars : UpperChars[i] = c]
  ELSE c

\* str.lower()
Lower(s) == [i \in DOMAIN s |-> LowerChar(s[i])]

IsSpace(c) == c \in {" ", "\t", "\n"}

RECURSIVE LStrip(_)
LStrip(s) ==
  IF s # <<>> /\ IsSpace(Head(s)) THEN LStrip(Tail(s)) ELSE s

RECURSIVE RStrip(_)
RStrip(s) ==
  IF s # <<>> /\ IsSpace(s[Len(s)]) THEN RStrip(SubSeq(s, 1, Len(s) - 1)) ELSE s

\* str.strip()
Strip(s) == RStrip(LStrip(s))

SetMax(S) == CHOOSE m \in S : \A n \in S : n <= m

\* pathlib's Path.suffix: from the last dot of the name, unless that dot
\* leads or ends the name
Suffix(name) ==
  LET dots == {i \in 2..(Len(name) - 1) : name[i] = "."}
  IN  IF dots = {} THEN <<>> ELSE SubSeq(name, SetMax(dots), Len(name))

SUPPORTED_EXTS ==
  { <<".", "w", "e", "b", "p">>, <<".", "j", "p", "g">>,
    <<".", "j", "p", "e", "g">>, <<".", "p", "n", "g">> }

\* --------------------------------------------------------- the environment
\* what input/ may hold: regular files and a directory, with their st_mtime
DirEntries ==
  { [name |-> <<"a", ".", "w", "e", "b", "p">>, isFile |-> TRUE, mtime |-> 1],
    [name |-> <<"b", ".", "P", "N", "G">>, isFile |-> TRUE, mtime |-> 2],
    [name |-> <<"n", ".", "t", "x", "t">>, isFile |-> TRUE, mtime |-> 3],
    [name |-> <<"d", ".", "p", "n", "g">>, isFile |-> FALSE, mtime |-> 3] }

NoPath == [name |-> <<>>, isFile |-> FALSE, mtime |-> 0]

\* os.environ.get("REALESRGAN_BIN", ""): the default when the variable is unset
Unset == <<"<", "u", "n", "s", "e", "t", ">">>

ToolPath == <<"/", "t">>

EnvValues ==
  { Unset, <<>>, <<" ", "\t">>, <<"/", "m">>, ToolPath, <<" ">> \o ToolPath \o <<"\n">> }

EnvGet(env) == IF env = Unset THEN <<>> ELSE env

\* Path(p).exists(): the one path of the file system that holds the tool
PathExists(p) == p = ToolPath

\* the states of input/ and of the environment a run may start in
DirStates ==
  {<<"absent", {}>>, <<"file", {}>>} \cup
  {<<"dir", S>> : S \in SUBSET DirEntries}

\* work/upscaled.png: absent, a PNG, or the partial output of a failed tool
NoFile == [kind |-> "none", w |-> 0, h |-> 0, run |-> 0]

PngFile(w, h, r) == [kind |-> "png", w |-> w, h |-> h, run |-> r]

PartialFile(r) == [kind |-> "partial", w |-> 0, h |-> 0, run |-> r]

NoErr == [type |-> "none", at |-> "none"]

Error(type, at) == [type |-> type, at |-> at]

\* ------------------------------------------------------- pick_input_file
\* a slip: the suffix compared as it is spelt
IsCandidateCaseSensitive(p) ==
  p.isFile /\ Suffix(p.name) \in SUPPORTED_EXTS

\* p.is_file() and p.suffix.lower() in SUPPORTED_EXTS
IsCandidate(p) ==
  p.isFile /\ Lower(Suffix(p.name)) \in SUPPORTED_EXTS

candidates(files) == {p \in files : IsCandidate(p)}

\* max(candidates, key=st_mtime): iterdir() lists in no fixed order, so any
\* candidate of the greatest st_mtime may be the one returned
Newest(cands) == {p \in cands : \A q \in cands : q.mtime <= p.mtime}

\* ---------------------------------------------------------- run_realesrgan
\* how subprocess.run(cmd, check=True) may end
ToolOutcomes(bin) ==
  IF PathExists(bin)
  THEN {"exec_error", "nonzero", "nonzero_partial", "signal", "zero_out",
        "zero_noout"}
  ELSE {"exec_error"}

\* the subprocess was started
Started(outcome) == outcome \notin {"not_run", "exec_error"}

\* True unless subprocess.run raised (OSError, CalledProcessError)
run_realesrgan(outcome) == outcome \in {"zero_out", "zero_noout"}

\* what the tool leaves at work/upscaled.png, given work/input_cropped.png
ToolWrites(outcome, old, cropped, r) ==
  CASE outcome = "zero_out" -> PngFile(SCALE * cropped.w, SCALE * cropped.h, r)
    [] outcome = "nonzero_partial" -> PartialFile(r)
    [] OTHER -> old

\* ------------------------------------------------------------------- main
ShouldUpscale(bin) == bin # <<>> /\ PathExists(bin)

\* a slip: the upscaled file read whenever there is one
UseUpscaledIfPresent(ai, file) == file.kind # "none"

\* ... if used_ai else im_cropped
UseUpscaled(ai, file) == ai

ResetRun ==
  /\ pc' = "exited"
  /\ input_path' = NoPath
  /\ im' = NoRaster
  /\ im_cropped' = NoRaster
  /\ croppedFile' = NoFile
  /\ toolExit' = "not_run"
  /\ used_ai' = FALSE
  /\ src_for_final' = NoRaster
  /\ final' = NoRaster
  /\ tiffFile' = NoFile
  /\ previewFile' = NoFile
  /\ err' = NoErr

Fail(type, at) ==
  /\ pc' = "error"
  /\ err' = Error(type, at)

\* lines 91-95: the directories are made, pick_input_file() chooses the input
PickInput ==
  /\ pc = "start"
  /\ IF inputDir = "absent"
     THEN Fail("FileNotFoundError", "pick_input_file") /\ UNCHANGED input_path
     ELSE IF inputDir = "file"
     THEN Fail("NotADirectoryError", "pick_input_file") /\ UNCHANGED input_path
     ELSE IF candidates(inputFiles) = {}
     THEN Fail("FileNotFoundError", "pick_input_file") /\ UNCHANGED input_path
     ELSE /\ input_path' \in Newest(candidates(inputFiles))
          /\ pc' = "picked"
          /\ UNCHANGED err
  /\ UNCHANGED <<cropVars, fsVars, run, im, im_cropped, croppedFile, toolExit,
                 used_ai, src_for_final, final, tiffFile, previewFile>>

\* the sizes an input file may decode to: every small size, and sizes around
\* the print target (too wide, too narrow, of odd height, larger than the
\* target)
ImageSizes ==
  ((1..MaxImg) \X (1..MaxImg)) \cup
  {<<5000, 8000>>, <<3000, 8000>>, <<4000, 8001>>, <<10000, 20000>>}

\* line 99: the file decodes to an image of some size, or does not decode
LoadImage ==
  /\ pc = "picked"
  /\ \/ \E size \in ImageSizes :
          /\ im' = Raster(size[1], size[2], 0, 0, "input", run)
          /\ pc' = "loaded"
          /\ UNCHANGED err
     \/ Fail("UnidentifiedImageError", "open_input") /\ UNCHANGED im
  /\ UNCHANGED <<cropVars, fsVars, run, input_path, im_cropped, croppedFile,
                 toolExit, used_ai, src_for_final, final, tiffFile, previewFile>>

\* lines 100-103: the crop, and the cropped raster saved as a PNG; the PNG
\* encoder refuses a raster with an empty side
CropAndSave ==
  /\ pc = "loaded"
  /\ im_cropped' = crop_to_1_to_2(im)
  /\ IF im_cropped'.w <= 0 \/ im_cropped'.h <= 0
     THEN Fail("SystemError", "save_cropped") /\ UNCHANGED croppedFile
     ELSE /\ croppedFile' = PngFile(im_cropped'.w, im_cropped'.h, run)
          /\ pc' = "saved"
          /\ UNCHANGED err
  /\ UNCHANGED <<cropVars, fsVars, run, input_path, im, toolExit, used_ai,
                 src_for_final, final, tiffFile, previewFile>>

\* lines 106-111
Upscale ==
  /\ pc = "saved"
  /\ LET realesrgan_bin == Strip(EnvGet(environ))
     IN  IF ShouldUpscale(realesrgan_bin)
         THEN \E o \in ToolOutcomes(realesrgan_bin) :
                /\ toolExit' = o
                /\ used_ai' = run_realesrgan(o)
                /\ upscaledFile' = ToolWrites(o, upscaledFile, croppedFile, run)
         ELSE UNCHANGED <<toolExit, used_ai, upscaledFile>>
  /\ pc' = "upscaled"
  /\ UNCHANGED <<cropVars, inputDir, inputFiles, environ, run, input_path, im,
                 im_cropped, croppedFile, src_for_final, final, tiffFile,
                 previewFile, err>>

\* line 114
OpenSource ==
  /\ pc = "upscaled"
  /\ IF UseUpscaled(used_ai, upscaledFile)
     THEN IF upscaledFile.kind = "none"
          THEN Fail("FileNotFoundError", "open_upscaled")
               /\ UNCHANGED src_for_final
          ELSE IF upscaledFile.kind = "partial"
          THEN Fail("UnidentifiedImageError", "open_upscaled")
               /\ UNCHANGED src_for_final
          ELSE /\ src_for_final' = Raster(upscaledFile.w, upscaledFile.h, 0, 0,
                                          "upscaled", upscaledFile.run)
               /\ pc' = "sourced"
               /\ UNCHANGED err
     ELSE /\ src_for_final' = im_cropped
          /\ pc' = "sourced"
          /\ UNCHANGED err
  /\ UNCHANGED <<cropVars, fsVars, run, input_path, im, im_cropped, croppedFile,
                 toolExit, used_ai, final, tiffFile, previewFile>>

\* lines 117-130: resize to the print target (the unsharp mask keeps the
\* size) and save the TIFF
ExportTiff ==
  /\ pc = "sourced"
  /\ final' = Resize(src_for_final, TARGET_W, TARGET_H)
  /\ tiffFile' = [kind |-> "tiff", w |-> final'.w, h |-> final'.h, run |-> run]
  /\ pc' = "tiff_saved"
  /\ UNCHANGED <<cropVars, fsVars, run, input_path, im, im_cropped, croppedFile,
                 toolExit, used_ai, src_for_final, previewFile, err>>

\* lines 133-135
ExportPreview ==
  /\ pc = "tiff_saved"
  /\ LET preview == Resize(final, PREVIEW_W, PREVIEW_H)
     IN  previewFile' = [kind |-> "jpeg", w |-> preview.w, h |-> preview.h,
                         run |-> run]
  /\ pc' = "done"
  /\ UNCHANGED <<cropVars, fsVars, run, input_path, im, im_cropped, croppedFile,
                 toolExit, used_ai, src_for_final, final, tiffFile, err>>

\* the process ends, by returning from main() or by the uncaught exception:
\* nothing of it is left but the files it wrote
Exit ==
  /\ pc \in {"done", "error"}
  /\ ResetRun
  /\ UNCHANGED <<cropVars, fsVars, run>>

\* the script is started again: input/ and the environment may have changed,
\* work/ is as the earlier runs left it
NextRun ==
  /\ pc = "exited"
  /\ run < MaxRuns
  /\ run' = run + 1
  /\ pc' = "start"
  /\ \E d \in DirStates : inputDir' = d[1] /\ inputFiles' = d[2]
  /\ environ' \in EnvValues
  /\ UNCHANGED <<cropVars, upscaledFile, input_path, im, im_cropped,
                 croppedFile, toolExit, used_ai, src_for_final, final, tiffFile,
                 previewFile, err>>

\* ---------------------------------------------------------- specifications
IdleRun ==
  /\ run = 0
  /\ pc = "idle"
  /\ inputDir = "absent"
  /\ inputFiles = {}
  /\ environ = Unset
  /\ upscaledFile = NoFile
  /\ input_path = NoPath
  /\ im = NoRaster
  /\ im_cropped = NoRaster
  /\ croppedFile = NoFile
  /\ toolExit = "not_run"
  /\ used_ai = FALSE
  /\ src_for_final = NoRaster
  /\ final = NoRaster
  /\ tiffFile = NoFile
  /\ previewFile = NoFile
  /\ err = NoErr

Init ==
  /\ cropIn = NoRaster
  /\ cropOut = <<>>
  /\ run = 1
  /\ pc = "start"
  /\ \E d \in DirStates : inputDir = d[1] /\ inputFiles = d[2]
  /\ environ \in EnvValues
  /\ upscaledFile = NoFile
  /\ input_path = NoPath
  /\ im = NoRaster
  /\ im_cropped = NoRaster
  /\ croppedFile = NoFile
  /\ toolExit = "not_run"
  /\ used_ai = FALSE
  /\ src_for_final = NoRaster
  /\ final = NoRaster
  /\ tiffFile = NoFile
  /\ previewFile = NoFile
  /\ err = NoErr

Next ==
  \/ PickInput
  \/ LoadImage
  \/ CropAndSave
  \/ Upscale
  \/ OpenSource
  \/ ExportTiff
  \/ ExportPreview
  \/ Exit
  \/ NextRun

Spec == Init /\ [][Next]_vars

CropInit ==
  /\ cropIn \in CropInputs
  /\ cropOut = <<>>
  /\ IdleRun

CropNext == CropApply

SpecCrop == CropInit /\ [][CropNext]_vars

\* ------------------------------------------------------------------ claims
\* the raster given to the i-th application of crop_to_1_to_2
CropArg(i) == IF i = 1 THEN cropIn ELSE cropOut[i - 1].img

\* C1: whatever the upscale step does, a run that has decoded its input and
\* saved the cropped raster does not end in an error, and a finished run has
\* written both the TIFF and the preview.
C1_UpscaleBestEffort ==
  /\ (croppedFile.kind = "png" => pc # "error")
  /\ (pc = "done" => tiffFile.kind = "tiff" /\ previewFile.kind = "jpeg")

\* C2: whenever some window of the input has the exact ratio 2*w = h, the
\* raster crop_to_1_to_2 returns has 2*w' = h'.
C2_ExactRatioWhenAchievable ==
  \A i \in 1..Len(cropOut) :
    (\E w2 \in 1..CropArg(i).w, h2 \in 1..CropArg(i).h : 2 * w2 = h2)
      => 2 * cropOut[i].img.w = cropOut[i].img.h

\* C3: used_ai is true only if the tool was started in this run and exited
\* with status zero; when used_ai is true the raster resized is the file the
\* tool wrote in this run; when it is false the raster resized is this run's
\* cropped raster.
C3_NoFalseSuccess ==
  /\ (used_ai => Started(toolExit) /\ toolExit \in {"zero_out", "zero_noout"})
  /\ (src_for_final # NoRaster /\ used_ai =>
        /\ toolExit = "zero_out"
        /\ src_for_final.src = "upscaled"
        /\ src_for_final.run = run)
  /\ (src_for_final # NoRaster /\ ~used_ai => src_for_final = im_cropped)

\* REALESRGAN_BIN is unset, empty, whitespace only, or names no existing path
NoUsableTool ==
  \/ environ = Unset
  \/ \A i \in DOMAIN environ : environ[i] \in {" ", "\t", "\n"}
  \/ Strip(environ) # ToolPath

\* C4: if REALESRGAN_BIN is unset, empty, whitespace only or names a path that
\* does not exist, the tool is not started in the run, used_ai stays false,
\* work/upscaled.png is not written, and the raster resized and exported is
\* the cropped raster.
C4_NoToolWithoutPath ==
  NoUsableTool =>
    /\ toolExit = "not_run"
    /\ ~used_ai
    /\ upscaledFile.run # run
    /\ (src_for_final # NoRaster => src_for_final = im_cropped)
    /\ (final # NoRaster => final.src = "input" /\ final.run = run)
    /\ (pc = "done" => tiffFile.kind = "tiff" /\ previewFile.kind = "jpeg")

\* a finished run without a usable tool, with an upscaled.png of an earlier
\* run lying in work/
C4_Witness ==
  /\ pc = "done"
  /\ environ = <<"/", "m">>
  /\ upscaledFile.kind = "png"
  /\ final.src = "input"

\* C5: a finished run has written a TIFF of exactly 8504 x 17008 pixels and a
\* preview of exactly 2126 x 4252 pixels, a quarter of the target in each axis.
C5_ExactTargetSize ==
  pc = "done" =>
    /\ tiffFile.w = 8504 /\ tiffFile.h = 17008
    /\ previewFile.w = 2126 /\ previewFile.h = 4252
    /\ 4 * previewFile.w = tiffFile.w /\ 4 * previewFile.h = tiffFile.h

\* a finished run whose source, an upscaled raster that is not 1:2, was
\* larger than the target
C5_Witness ==
  /\ pc = "done"
  /\ used_ai
  /\ src_for_final.h # 2 * src_for_final.w
  /\ src_for_final.w > 8504
  /\ tiffFile.w = 8504

\* C6: a raster with h = 2*w is returned as it is, no crop performed, and a
\* second application of crop_to_1_to_2 returns the result of the first
\* (same size, same window).
C6_Idempotent ==
  /\ (Len(cropOut) >= 1 /\ cropIn.h = 2 * cropIn.w =>
        cropOut[1].img = cropIn /\ cropOut[1].branch = "same")
  /\ (Len(cropOut) = 2 =>
        cropOut[2].img = cropOut[1].img /\ cropOut[2].branch = "same")

\* a raster that the first application cropped and the second left alone
C6_Witness ==
  /\ Len(cropOut) = 2
  /\ cropOut[1].img # cropIn
  /\ cropOut[2].img = cropOut[1].img

\* C7: the raster crop_to_1_to_2 returns for an input of positive width and
\* height, which is the one saved as the cropped intermediate and resized,
\* has positive width and height.
C7_PositiveDims ==
  im_cropped # NoRaster => im_cropped.w >= 1 /\ im_cropped.h >= 1

\* the regular files of input/ with an accepted extension, case ignored
Eligible ==
  {p \in inputFiles : p.isFile /\ Lower(Suffix(p.name)) \in SUPPORTED_EXTS}

\* C8: if input/ is absent or holds no regular file with an accepted
\* extension (case ignored), the run ends with a not-found error before
\* anything is decoded: the tool is not started and no cropped intermediate,
\* upscaled file, TIFF or preview is written in that run; otherwise the file
\* chosen is an eligible file of the greatest modification time.
C8_InputSelection ==
  /\ (pc \notin {"start", "exited"} /\ (inputDir = "absent" \/ (inputDir = "dir" /\ Eligible = {}))
        => /\ pc = "error"
           /\ err = Error("FileNotFoundError", "pick_input_file")
           /\ input_path = NoPath
           /\ im = NoRaster
           /\ toolExit = "not_run"
           /\ upscaledFile.run # run
           /\ croppedFile = NoFile
           /\ tiffFile = NoFile
           /\ previewFile = NoFile)
  /\ (pc \notin {"start", "exited"} /\ inputDir = "dir" /\ Eligible # {}
        => /\ input_path \in Eligible
           /\ \A q \in Eligible : q.mtime <= input_path.mtime)
  /\ (input_path # NoPath
        => /\ input_path.isFile
           /\ Lower(Suffix(input_path.name)) \in SUPPORTED_EXTS)

\* a run that ended on an input/ holding only entries that are not eligible
C8_Witness ==
  /\ pc = "error"
  /\ inputDir = "dir"
  /\ Cardinality(inputFiles) = 2
  /\ Eligible = {}
  /\ err.at = "pick_input_file"

\* the margins the i-th application left around its window: before it (left or
\* top) and after it (right or bottom), in the axis it cropped
MarginBefore(i) ==
  IF cropOut[i].branch = "width"
  THEN cropOut[i].img.x - CropArg(i).x
  ELSE cropOut[i].img.y - CropArg(i).y

MarginAfter(i) ==
  IF cropOut[i].branch = "width"
  THEN (CropArg(i).x + CropArg(i).w) - (cropOut[i].img.x + cropOut[i].img.w)
  ELSE (CropArg(i).y + CropArg(i).h) - (cropOut[i].img.y + cropOut[i].img.h)

CropDiff(i) == MarginBefore(i) + MarginAfter(i)

\* C9 as stated: in both crop branches, an odd difference d puts the window
\* one pixel closer to the right (bottom) edge than to the left (top) edge,
\* and an even d leaves equal margins.
C9_BiasLowerRight ==
  \A i \in 1..Len(cropOut) :
    cropOut[i].branch \in {"width", "height"} =>
      IF CropDiff(i) % 2 = 1
      THEN MarginAfter(i) + 1 = MarginBefore(i)
      ELSE MarginAfter(i) = MarginBefore(i)

\* C9 as amended: in both crop branches, an odd difference d leaves floor(d/2)
\* pixels before the window and one pixel more after it, so the window sits
\* one pixel closer to the left (top) edge; an even d leaves equal margins.
C9_BiasUpperLeft ==
  \A i \in 1..Len(cropOut) :
    cropOut[i].branch \in {"width", "height"} =>
      /\ MarginBefore(i) = CropDiff(i) \div 2
      /\ IF CropDiff(i) % 2 = 1
         THEN MarginAfter(i) = MarginBefore(i) + 1
         ELSE MarginAfter(i) = MarginBefore(i)

\* a width crop of an odd difference greater than one
C9_Witness ==
  /\ Len(cropOut) >= 1
  /\ cropOut[1].branch = "width"
  /\ CropDiff(1) % 2 = 1
  /\ CropDiff(1) >= 3

\* C10: the branch that returns a too narrow input unchanged is never taken:
\* w < floor(h/2) implies 2*w <= h; the input is returned unchanged only when
\* w = floor(h/2); no side grows; every result has w' = floor(h'/2).
C10_FallbackUnreachable ==
  \A i \in 1..Len(cropOut) :
    /\ cropOut[i].branch # "fallback"
    /\ (CropArg(i).w < CropArg(i).h \div 2 =>
          2 * CropArg(i).w <= CropArg(i).h /\ cropOut[i].branch = "height")
    /\ (cropOut[i].img = CropArg(i) => CropArg(i).w = CropArg(i).h \div 2)
    /\ cropOut[i].img.w <= CropArg(i).w
    /\ cropOut[i].img.h <= CropArg(i).h
    /\ cropOut[i].img.w = cropOut[i].img.h \div 2

\* a too narrow raster, cropped in height
C10_Witness ==
  /\ Len(cropOut) >= 1
  /\ cropIn.w < cropIn.h \div 2
  /\ cropOut[1].branch = "height"
  /\ cropOut[1].img.h < cropIn.h
====
